---- MODULE Spec2Model ----
(***************************************************************************)
(* FashionNanoBanana: the REST service of backend/api.py (the analyze and  *)
(* generate workflows) and the analysis / generation functions of          *)
(* backend/banana.py, with the command-line pipeline banana.main().        *)
(*                                                                         *)
(* Spec     the REST service handling two requests, interleaved step by    *)
(*          step (several workers sharing the file system).                *)
(* SpecCli  one run of the command-line pipeline.                          *)
(* SpecAnalysis  one call of analyze_clothing_item on one remote reply.    *)
(* SpecRelease   calls of cleanup_file while someone else removes files.   *)
(***************************************************************************)
EXTENDS Integers, Sequences, FiniteSets, TLC

VARIABLES
    fs,             \* the file system: path -> [by, data], regular files only
    uuids,          \* per request: the uuid.uuid4() calls it made; call n of
                    \* request r returns <<r, n>>, which no other call returns
    script,         \* what the remote generation service streams to a call
    quota,          \* how many files the static directory accepts (-1: no limit)
    pc,             \* per request: the handler's position
    endpoint,       \* per request: "analyze" or "generate"
    output_prefix,  \* per request: the output_prefix parameter
    clothing_path,  \* per request: the handler's local clothing_path
    model_path,     \* per request: the handler's local model_path
    analysis,       \* per request: the handler's local analysis
    pending,        \* per request: what the try block left for after finally
    response,       \* per request: what the caller received
    created,        \* per request: every file the request created (history)
    trace,          \* per request: the events of the request, in order (history)
    cli             \* the command-line run: position, locals and history

vars == <<fs, uuids, script, quota, pc, endpoint, output_prefix,
          clothing_path, model_path, analysis, pending, response, created,
          trace, cli>>

reqVars == <<pc, endpoint, output_prefix, clothing_path, model_path, analysis,
             pending, response, created, trace>>

-----------------------------------------------------------------------------
(* Bounds *)

\* The longest stream of chunks the generation service delivers.
MaxChunks == 3

Reqs == {"r1", "r2"}

Prefixes == {"product", "look"}

-----------------------------------------------------------------------------
(* Program constants *)

\* range(10): the number of indices the publish scan looks at.
MaxScan == 10

-----------------------------------------------------------------------------
(* Paths.  Every path is a record of one shape:                            *)
(*   uploads     <script_dir>/<folder>/<stamp>_<id><ext>                   *)
(*   transient   <cwd>/<pre>_<idx><ext>                                    *)
(*   published   <script_dir>/static/generated_<id>_<idx>.png              *)

MkPath(dir, stamp, id, pre, idx, ext) ==
    [dir |-> dir, stamp |-> stamp, id |-> id, pre |-> pre, idx |-> idx, ext |-> ext]

NoId == <<"", -1>>

\* None, for a path variable.
NoPath == MkPath("none", -1, NoId, "", -1, "")

\* "/", the first character of every absolute path: a directory.
RootDir == MkPath("/", -1, NoId, "", -1, "")

\* A file the user put into a folder by hand.
UserFile(dir, name, ext) == MkPath(dir, -1, NoId, name, -1, ext)

Remove(f, p) == [q \in DOMAIN f \ {p} |-> f[q]]

Put(f, p, v) == [q \in DOMAIN f \cup {p} |-> IF q = p THEN v ELSE f[q]]

-----------------------------------------------------------------------------
(* Uploads: the declared content type and the file name, the name as its   *)
(* stem followed by its dot-separated parts.                               *)

Upload(ct, fn) == [content_type |-> ct, filename |-> fn]

Uploads ==
    { Upload("image/jpeg", <<"shirt", ".jpg">>),
      Upload("image/png", <<"model", ".PNG">>),
      Upload("text/plain", <<"notes", ".jpg">>),
      Upload("image/jpeg", <<"shirt", ".jpg", ".txt">>),
      Upload("image/webp", <<".webp">>),
      Upload("image/gif", <<"anim", ".gif">>) }

\* Path(name).suffix: the last dot-part, "" when the name has none (a name
\* that only starts with a dot has none).
Suffix(filename) ==
    IF Len(filename) >= 2 THEN filename[Len(filename)] ELSE ""

\* str.lower() on the extensions that occur.
Lower(s) ==
    CASE s = ".JPG" -> ".jpg"
      [] s = ".JPEG" -> ".jpeg"
      [] s = ".PNG" -> ".png"
      [] s = ".WEBP" -> ".webp"
      [] OTHER -> s

allowed_types == {"image/jpeg", "image/jpg", "image/png", "image/webp"}

allowed_extensions == {".jpg", ".jpeg", ".png", ".webp"}

\* A validation that accepts a file when either check passes.
validate_image_file_either(file) ==
    \/ file.content_type \in allowed_types
    \/ Lower(Suffix(file.filename)) \in allowed_extensions

validate_image_file(file) ==
    IF file.content_type \notin allowed_types
    THEN FALSE
    ELSE IF Lower(Suffix(file.filename)) \notin allowed_extensions
         THEN FALSE
         ELSE TRUE

\* A name that leaves the random token out.
get_unique_filename_no_token(original_filename, timestamp, unique_id) ==
    [stamp |-> timestamp, id |-> NoId, ext |-> Suffix(original_filename)]

get_unique_filename(original_filename, timestamp, unique_id) ==
    [stamp |-> timestamp, id |-> unique_id, ext |-> Suffix(original_filename)]

UploadPath(folder, name) == MkPath(folder, name.stamp, name.id, "", -1, name.ext)

\* What one call of save_upload_file can do: reject the file, fail to make
\* the folder, fail to open the destination, fail while copying (the file is
\* there, cut short), or save it and return its path.
SaveOutcome(result, path, file) == [result |-> result, path |-> path, file |-> file]

\* A store that opens the destination before it validates.
save_upload_file_late_check(upload_file, destination_folder, timestamp, unique_id) ==
    LET file_path == UploadPath(destination_folder,
                        get_unique_filename(upload_file.filename, timestamp, unique_id))
    IN  IF ~validate_image_file(upload_file)
        THEN {SaveOutcome("rejected", file_path, "partial")}
        ELSE {SaveOutcome("saved", file_path, "full")}

save_upload_file(upload_file, destination_folder, timestamp, unique_id) ==
    IF ~validate_image_file(upload_file)
    THEN {SaveOutcome("rejected", NoPath, "none")}
    ELSE LET file_path == UploadPath(destination_folder,
                              get_unique_filename(upload_file.filename, timestamp, unique_id))
         IN  { SaveOutcome("makedirs_error", NoPath, "none"),
               SaveOutcome("open_error", file_path, "none"),
               SaveOutcome("copy_error", file_path, "partial"),
               SaveOutcome("saved", file_path, "full") }

-----------------------------------------------------------------------------
(* cleanup_file: remove the file when it exists; an error is only logged.  *)

\* A cleanup that only logs and removes nothing.
cleanup_file_noop(files, file_path) == files

cleanup_file(files, file_path) ==
    IF file_path \in DOMAIN files THEN Remove(files, file_path) ELSE files

-----------------------------------------------------------------------------
(* The analysis.  The text of a remote response is a sequence of tokens:   *)
(* "ws" (white space), "fence_json" and "fence" (the code block markers  *)
(* with and without the json tag), a JSON                                 *)
(* value, or "junk" (anything that is no JSON).  NoText is response.text    *)
(* being None.                                                              *)

ClothingAnalysis(description, tags, clothing_type, color, texture, material, style, season) ==
    [description |-> description, tags |-> tags, clothing_type |-> clothing_type,
     color |-> color, texture |-> texture, material |-> material,
     style |-> style, season |-> season]

\* None, for the analysis variable.
NoAnalysis == ClothingAnalysis("", <<>>, "", "", "", "", "", "")

\* The JSON values a response can hold; "fields" are the keys the object has.
SchemaFields ==
    {"description", "tags", "clothing_type", "color", "texture", "material",
     "style", "season"}

JsonValues ==
    { [json |-> "object", fields |-> SchemaFields, tags |-> <<"casual", "cotton">>,
       color |-> "blue"],
      [json |-> "object", fields |-> SchemaFields \cup {"brand"}, tags |-> <<"casual">>,
       color |-> "blue"],
      [json |-> "object", fields |-> SchemaFields, tags |-> <<>>, color |-> ""],
      [json |-> "object", fields |-> SchemaFields \ {"season"}, tags |-> <<"casual">>,
       color |-> "blue"],
      [json |-> "array", fields |-> {}, tags |-> <<>>, color |-> ""] }

Tok(t) == [json |-> t, fields |-> {}, tags |-> <<>>, color |-> ""]

NoText == <<Tok("None")>>

\* str.strip(): white space off both ends.
RECURSIVE LStrip(_)
LStrip(text) ==
    IF text # <<>> /\ Head(text).json = "ws" THEN LStrip(Tail(text)) ELSE text

RECURSIVE RStrip(_)
RStrip(text) ==
    IF text # <<>> /\ text[Len(text)].json = "ws"
    THEN RStrip(SubSeq(text, 1, Len(text) - 1))
    ELSE text

Strip(text) == RStrip(LStrip(text))

\* The fence removal of lines 88-91: an opening "fence_json" and a closing "fence".
Unfence(text) ==
    LET a == IF text # <<>> /\ Head(text).json = "fence_json" THEN Tail(text) ELSE text
    IN  IF a # <<>> /\ a[Len(a)].json = "fence" THEN SubSeq(a, 1, Len(a) - 1) ELSE a

\* A fallback record that leaves fields empty.
FallbackAnalysis_partial ==
    ClothingAnalysis("Unable to analyze clothing item", <<>>, "", "", "", "", "", "")

\* The record of the except branch.
FallbackAnalysis ==
    ClothingAnalysis("Unable to analyze clothing item", <<"unknown">>, "unknown",
                     "unknown", "unknown", "unknown", "unknown", "unknown")

\* The ClothingAnalysis constructor on the parsed data: every field of the schema is required,
\* other keys are ignored, the values are taken as they are.
FromJson(v) ==
    ClothingAnalysis("a shirt", v.tags, "shirt", v.color, "smooth", "cotton",
                     "casual", "summer")

\* A parse that lets the error out instead of returning the fallback record:
\* Raised stands for the exception.
Raised == ClothingAnalysis("raised", <<>>, "", "", "", "", "", "")

ParseAnalysis_raising(text) ==
    IF text = NoText
    THEN Raised
    ELSE LET body == Strip(Unfence(Strip(text)))
         IN  IF Len(body) = 1 /\ body[1].json = "object" /\ SchemaFields \subseteq body[1].fields
             THEN FromJson(body[1])
             ELSE Raised

\* Lines 84-108: the try block and its except branch.
ParseAnalysis(text) ==
    IF text = NoText
    THEN FallbackAnalysis
    ELSE LET body == Strip(Unfence(Strip(text)))
         IN  IF Len(body) = 1 /\ body[1].json = "object" /\ SchemaFields \subseteq body[1].fields
             THEN FromJson(body[1])
             ELSE FallbackAnalysis

-----------------------------------------------------------------------------
(* The generation.  A chunk of the stream has no candidates, a candidate   *)
(* without content, a content without parts, or a list of parts; a part is *)
(* an image (inline data with a declared media type), a text, or neither.  *)

Part(kind, mime) == [part |-> kind, mime |-> mime]

Chunk(kind, parts) == [chunk |-> kind, parts |-> parts]

Img(mime) == Part("image", mime)

Txt == Part("text", "")

Blank == Part("empty", "")

Chunks ==
    { Chunk("no_candidates", <<>>), Chunk("no_content", <<>>), Chunk("no_parts", <<>>),
      Chunk("parts", <<>>),
      Chunk("parts", <<Txt>>),
      Chunk("parts", <<Blank>>),
      Chunk("parts", <<Img("image/png")>>),
      Chunk("parts", <<Img("image/jpeg")>>),
      Chunk("parts", <<Img("application/x-raw")>>),
      Chunk("parts", <<Txt, Img("image/png")>>),
      Chunk("parts", <<Img("image/png"), Img("image/png")>>) }

\* A script of the remote generation service: the chunks it delivers to a
\* call, and whether the stream then ends (ok) or the call raises.
Script(chunks, ok) == [chunks |-> chunks, ok |-> ok]

Scripts ==
    { Script(c, ok) : c \in UNION { [1..n -> Chunks] : n \in 0..MaxChunks },
                      ok \in BOOLEAN }

\* mimetypes.guess_extension; "" is None.
guess_extension(mime) ==
    CASE mime = "image/png" -> ".png"
      [] mime = "image/jpeg" -> ".jpg"
      [] mime = "image/webp" -> ".webp"
      [] OTHER -> ""

\* <output_prefix>_<index><extension>, in the working directory.
Transient(prefix, index, extension) == MkPath("cwd", -1, NoId, prefix, index, extension)

\* The file of an image part: the payload of part j of chunk k is k * 10 + j.
Payload(k, j) == k * 10 + j

\* Lines 184-195 on one part, with an index that counts texts too.
OnPart_counting_all(st, part, prefix, k, j, who) ==
    IF part.part = "image"
    THEN LET file_extension == IF guess_extension(part.mime) = "" THEN ".png"
                               ELSE guess_extension(part.mime)
         IN  [st EXCEPT !.fs = Put(st.fs, Transient(prefix, st.file_index, file_extension),
                                   [by |-> who, data |-> Payload(k, j)]),
                        !.file_index = @ + 1,
                        !.written = Append(@, Transient(prefix, st.file_index, file_extension))]
    ELSE [st EXCEPT !.file_index = @ + 1]

\* Lines 184-195 on one part: an image is saved under the next index, a text
\* is printed, anything else is passed over.
OnPart(st, part, prefix, k, j, who) ==
    IF part.part = "image"
    THEN LET file_extension == IF guess_extension(part.mime) = "" THEN ".png"
                               ELSE guess_extension(part.mime)
         IN  [st EXCEPT !.fs = Put(st.fs, Transient(prefix, st.file_index, file_extension),
                                   [by |-> who, data |-> Payload(k, j)]),
                        !.file_index = @ + 1,
                        !.written = Append(@, Transient(prefix, st.file_index, file_extension))]
    ELSE st

RECURSIVE OnParts(_, _, _, _, _, _)
OnParts(st, parts, prefix, k, j, who) ==
    IF j > Len(parts)
    THEN st
    ELSE OnParts(OnPart(st, parts[j], prefix, k, j, who), parts, prefix, k, j + 1, who)

\* Lines 172-195: the loop over the chunks of the stream.
RECURSIVE OnChunks(_, _, _, _, _)
OnChunks(st, chunks, prefix, k, who) ==
    IF k > Len(chunks)
    THEN st
    ELSE IF chunks[k].chunk \in {"no_candidates", "no_content", "no_parts"}
         THEN OnChunks(st, chunks, prefix, k + 1, who)
         ELSE OnChunks(OnParts(st, chunks[k].parts, prefix, k, 1, who),
                       chunks, prefix, k + 1, who)

\* The apparel argument: a list of paths, or one path given as a str.
AsList(paths) == [str |-> FALSE, items |-> paths]

AsStr(path) == [str |-> TRUE, items |-> <<path>>]

\* A one-character relative path.
OneChar(ch) == MkPath("cwd", -1, NoId, ch, -1, "")

\* An iteration that takes a str for the list of the one path it names.
Iterate_as_list(arg) == arg.items

\* for apparel_path in apparel_image_paths: a list yields its paths, a str
\* yields its characters.  The paths the service stores are absolute, so
\* the first character is "/"; then come the letters of the folders.
Iterate(arg) ==
    IF arg.str THEN <<RootDir, OneChar("h")>> ELSE arg.items

\* load_image_as_bytes opens the path for reading: it must be a regular file.
CanLoad(files, path) == path \in DOMAIN files

\* A part of the request: the prompt, or the image loaded from a path.
ContentPart(kind, path) == [part |-> kind, path |-> path]

Prompt == ContentPart("prompt", NoPath)

ImagePart(path) == ContentPart("image", path)

\* Lines 155-160: the prompt, the apparel parts as loaded, the model image.
Contents(items, model_image_path) ==
    <<Prompt>> \o [n \in 1..Len(items) |-> ImagePart(items[n])]
               \o <<ImagePart(model_image_path)>>

\* The result of a call of the generator: the file system it leaves, whether
\* it raised and why, the requests it issued, the index it reached, the
\* files it wrote, in order, and the contents of the request it issued.
GenState(files, raised, cause, calls, file_index, written, contents) ==
    [fs |-> files, raised |-> raised, cause |-> cause, calls |-> calls,
     file_index |-> file_index, written |-> written, contents |-> contents]

generate_fashion_product_images(files, apparel_image_paths, model_image_path, prefix, stream, who) ==
    LET items == Iterate(apparel_image_paths)
    IN  IF \E n \in 1..Len(items) : ~CanLoad(files, items[n])
        THEN GenState(files, TRUE, "cannot_open_apparel", 0, 0, <<>>, <<>>)
        ELSE IF ~CanLoad(files, model_image_path)
        THEN GenState(files, TRUE, "cannot_open_model", 0, 0, <<>>, <<>>)
        ELSE LET st == OnChunks(GenState(files, FALSE, "", 1, 0, <<>>,
                                         Contents(items, model_image_path)),
                                stream.chunks, prefix, 1, who)
             IN  IF stream.ok
                 THEN st
                 ELSE [st EXCEPT !.raised = TRUE, !.cause = "remote_error"]

-----------------------------------------------------------------------------
(* The publish scan of the generate handler, lines 222-236.                *)

StaticPath(id, i) == MkPath("static", -1, id, "generated", i, ".png")

StaticFiles(files) == { p \in DOMAIN files : p.dir = "static" }

\* shutil.move fails when the static directory accepts no more files.
CanMove(files, q) == q < 0 \/ Cardinality(StaticFiles(files)) < q

\* The state of the scan: the file system, the uuid4 calls made, the
\* references collected, and whether a move raised.
PubState(files, n, urls, raised) ==
    [fs |-> files, uuids |-> n, urls |-> urls, raised |-> raised]

RECURSIVE PublishFrom(_, _, _, _, _)
PublishFrom(st, prefix, i, q, who) ==
    IF i >= MaxScan \/ st.raised
    THEN st
    ELSE LET image_file == Transient(prefix, i, ".png")
             static_path == StaticPath(<<who, st.uuids>>, i)
         IN  IF image_file \notin DOMAIN st.fs
             THEN PublishFrom(st, prefix, i + 1, q, who)
             ELSE IF ~CanMove(st.fs, q)
             THEN PubState(st.fs, st.uuids + 1, st.urls, TRUE)
             ELSE PublishFrom(
                      PubState(Put(Remove(st.fs, image_file), static_path, st.fs[image_file]),
                               st.uuids + 1, Append(st.urls, static_path), FALSE),
                      prefix, i + 1, q, who)

-----------------------------------------------------------------------------
(* analyze_clothing_item: load the image, ask the remote service (lines    *)
(* 79-82, outside the try block), parse the reply (lines 84-108).          *)

Reply(raises, text) == [raises |-> raises, text |-> text]

Ws == Tok("ws")

\* A token, or nothing.
Opt(tok) == {<<>>, <<tok>>}

\* The texts a response can hold: white space, an opening fence with or
\* without the json tag, white space, a JSON value or junk or nothing, white
\* space, a closing fence, white space, each of them there or not; or no
\* text at all.
Texts ==
    { a \o f \o b \o v \o c \o g \o d :
        a \in Opt(Ws),
        f \in Opt(Tok("fence_json")) \cup Opt(Tok("fence")),
        b \in Opt(Ws),
        v \in { <<x>> : x \in JsonValues } \cup Opt(Tok("junk")),
        c \in Opt(Ws),
        g \in Opt(Tok("fence")),
        d \in Opt(Ws) }
    \cup {NoText}

Replies == { Reply(FALSE, t) : t \in Texts } \cup { Reply(TRUE, <<>>) }

\* The replies the service is run against: the call raises; a fenced object
\* of the schema; a text that is no JSON; no text; an object that lacks a field.
ServiceReplies ==
    { Reply(TRUE, <<>>),
      Reply(FALSE, <<Tok("fence_json"), Ws,
                     [json |-> "object", fields |-> SchemaFields,
                      tags |-> <<"casual", "cotton">>, color |-> "blue"],
                     Ws, Tok("fence")>>),
      Reply(FALSE, <<Tok("junk")>>),
      Reply(FALSE, NoText),
      Reply(FALSE, <<[json |-> "object", fields |-> SchemaFields \ {"season"},
                      tags |-> <<"casual">>, color |-> "blue"]>>) }

AnaState(raised, cause, calls, value) ==
    [raised |-> raised, cause |-> cause, calls |-> calls, value |-> value]

analyze_clothing_item(files, image_path, reply) ==
    IF ~CanLoad(files, image_path)
    THEN AnaState(TRUE, "cannot_open_image", 0, NoAnalysis)
    ELSE IF reply.raises
    THEN AnaState(TRUE, "remote_error", 1, NoAnalysis)
    ELSE IF ParseAnalysis(reply.text) = Raised
    THEN AnaState(TRUE, "parse_error", 1, NoAnalysis)
    ELSE AnaState(FALSE, "", 1, ParseAnalysis(reply.text))

-----------------------------------------------------------------------------
(* The handlers of the service, analyze_clothing and                        *)
(* generate_product_images.                                                 *)

\* What the caller receives: the success body, or the error body that
\* http_exception_handler makes of an HTTPException.  cause is str(e) of the
\* exception the detail quotes.
Resp(status, detail, cause, images, result) ==
    [status |-> status, detail |-> detail, cause |-> cause, images |-> images,
     analysis |-> result]

NoResp == Resp(0, "", "", <<>>, NoAnalysis)

\* except Exception of the handler: the detail names the endpoint's step.
Wrapped(ep, cause) ==
    Resp(500, IF ep = "analyze" THEN "Analysis failed" ELSE "Product generation failed",
         cause, <<>>, NoAnalysis)

NoUpload == Upload("", <<>>)

\* An event of a request: a store (with the upload, the outcome and the
\* destination), a remote call or its end, a cleanup (with the path), the return.
Ev(ev, slot, up, result, path) ==
    [ev |-> ev, slot |-> slot, up |-> up, result |-> result, path |-> path]

\* The event of the generation request, with the contents it carries.
CallEv(contents) ==
    [ev |-> "generation_call", slot |-> "", up |-> NoUpload, result |-> "", path |-> NoPath,
     contents |-> contents]

Log(r, e) == trace' = [trace EXCEPT ![r] = Append(@, e)]

\* A request arrives.
Receive(r) ==
    /\ pc[r] = "idle"
    /\ \E ep \in {"analyze", "generate"} :
       \E prefix \in (IF ep = "generate" THEN Prefixes ELSE {"product"}) :
          /\ endpoint' = [endpoint EXCEPT ![r] = ep]
          /\ output_prefix' = [output_prefix EXCEPT ![r] = prefix]
    /\ pc' = [pc EXCEPT ![r] = "save_clothing"]
    /\ UNCHANGED <<fs, uuids, script, quota, clothing_path, model_path,
                   analysis, pending, response, created, trace, cli>>

\* The effect of one call of save_upload_file on the file system, the ids
\* and the history; what the handler does with its outcome is SaveClothing's
\* and SaveModel's.
Store(r, slot, up, o) ==
    /\ fs' = IF o.file = "none" THEN fs
             ELSE Put(fs, o.path, [by |-> r, data |-> IF o.file = "full" THEN 0 ELSE -1])
    /\ created' = IF o.file = "none" THEN created
                  ELSE [created EXCEPT ![r] = @ \cup {o.path}]
    /\ uuids' = IF o.result \in {"rejected", "makedirs_error"} THEN uuids
                ELSE [uuids EXCEPT ![r] = @ + 1]
    /\ Log(r, Ev("save", slot, up, o.result, o.path))

\* What a failed store leaves for after the finally block.
StoreError(ep, o) ==
    CASE o.result = "rejected" -> Resp(400, "Invalid file type", "", <<>>, NoAnalysis)
      [] o.result = "makedirs_error" -> Wrapped(ep, "makedirs")
      [] OTHER -> Resp(500, "Failed to save file", o.result, <<>>, NoAnalysis)

\* Line 161 / 211: clothing_path = await save_upload_file(clothing_image, "apparels")
SaveClothing(r) ==
    /\ pc[r] = "save_clothing"
    /\ \E up \in Uploads : \E o \in save_upload_file(up, "apparels", 0, <<r, uuids[r]>>) :
          /\ Store(r, "clothing", up, o)
          /\ IF o.result = "saved"
             THEN /\ clothing_path' = [clothing_path EXCEPT ![r] = o.path]
                  /\ pc' = [pc EXCEPT ![r] = IF endpoint[r] = "analyze" THEN "analyze"
                                             ELSE "save_model"]
                  /\ UNCHANGED pending
             ELSE /\ pending' = [pending EXCEPT ![r] = StoreError(endpoint[r], o)]
                  /\ pc' = [pc EXCEPT ![r] = "finally_clothing"]
                  /\ UNCHANGED clothing_path
    /\ UNCHANGED <<script, quota, endpoint, output_prefix, model_path, analysis,
                   response, cli>>

\* A handler that goes on to the analysis when the store of the model image failed.
SaveModel_continuing(r) ==
    /\ pc[r] = "save_model"
    /\ \E up \in Uploads : \E o \in save_upload_file(up, "model", 0, <<r, uuids[r]>>) :
          /\ Store(r, "model", up, o)
          /\ model_path' = [model_path EXCEPT ![r] = IF o.result = "saved" THEN o.path ELSE @]
          /\ pc' = [pc EXCEPT ![r] = "analyze"]
          /\ UNCHANGED pending
    /\ UNCHANGED <<script, quota, endpoint, output_prefix, clothing_path, analysis,
                   response, cli>>

\* Line 212: model_path = await save_upload_file(model_image, "model")
SaveModel(r) ==
    /\ pc[r] = "save_model"
    /\ \E up \in Uploads : \E o \in save_upload_file(up, "model", 0, <<r, uuids[r]>>) :
          /\ Store(r, "model", up, o)
          /\ IF o.result = "saved"
             THEN /\ model_path' = [model_path EXCEPT ![r] = o.path]
                  /\ pc' = [pc EXCEPT ![r] = "analyze"]
                  /\ UNCHANGED pending
             ELSE /\ pending' = [pending EXCEPT ![r] = StoreError(endpoint[r], o)]
                  /\ pc' = [pc EXCEPT ![r] = "finally_clothing"]
                  /\ UNCHANGED model_path
    /\ UNCHANGED <<script, quota, endpoint, output_prefix, clothing_path, analysis,
                   response, cli>>

\* Line 164 / 216: analysis = analyze_clothing_item(clothing_path); on the
\* analyze endpoint the success body follows (lines 168-172).
Analyze(r) ==
    /\ pc[r] = "analyze"
    /\ \E reply \in ServiceReplies :
          LET a == analyze_clothing_item(fs, clothing_path[r], reply)
          IN  /\ trace' = [trace EXCEPT ![r] =
                     @ \o (IF a.calls = 1 THEN <<Ev("analysis_call", "", NoUpload, "", NoPath)>>
                           ELSE <<>>)
                       \o <<Ev(IF a.raised THEN "analysis_raise" ELSE "analysis_return",
                               "", NoUpload, a.cause, NoPath)>>]
              /\ IF a.raised
                 THEN /\ pending' = [pending EXCEPT ![r] = Wrapped(endpoint[r], a.cause)]
                      /\ pc' = [pc EXCEPT ![r] = "finally_clothing"]
                      /\ UNCHANGED analysis
                 ELSE /\ analysis' = [analysis EXCEPT ![r] = a.value]
                      /\ IF endpoint[r] = "analyze"
                         THEN /\ pending' = [pending EXCEPT ![r] =
                                     Resp(200, "Clothing analysis completed successfully",
                                          "", <<>>, a.value)]
                              /\ pc' = [pc EXCEPT ![r] = "finally_clothing"]
                         ELSE /\ pc' = [pc EXCEPT ![r] = "generate"]
                              /\ UNCHANGED pending
    /\ UNCHANGED <<fs, uuids, script, quota, endpoint, output_prefix,
                   clothing_path, model_path, response, created, cli>>

\* Lines 220-245: the call of the generator, with clothing_path itself as
\* its apparel_image_paths, then the publish scan and the success body.
Generate(r) ==
    /\ pc[r] = "generate"
    /\ LET g == generate_fashion_product_images(fs, AsStr(clothing_path[r]), model_path[r],
                                                 output_prefix[r], script, r)
           p == PublishFrom(PubState(g.fs, uuids[r], <<>>, FALSE), output_prefix[r], 0, quota, r)
       IN  /\ trace' = [trace EXCEPT ![r] =
                  @ \o (IF g.calls = 1 THEN <<CallEv(g.contents)>>
                        ELSE <<>>)
                    \o <<Ev(IF g.raised THEN "generation_raise" ELSE "generation_return",
                            "", NoUpload, g.cause, NoPath)>>
                    \o (IF g.raised THEN <<>>
                        ELSE [n \in 1..Len(p.urls) |->
                                 Ev("publish", "", NoUpload, "", p.urls[n])])
                    \o (IF ~g.raised /\ p.raised
                        THEN <<Ev("publish_raise", "", NoUpload, "move_error", NoPath)>>
                        ELSE <<>>)]
           /\ created' = [created EXCEPT ![r] =
                  @ \cup { g.written[n] : n \in 1..Len(g.written) }
                    \cup (IF g.raised THEN {} ELSE StaticFiles(p.fs) \ StaticFiles(fs))]
           /\ IF g.raised
              THEN /\ fs' = g.fs
                   /\ pending' = [pending EXCEPT ![r] = Wrapped("generate", g.cause)]
                   /\ UNCHANGED uuids
              ELSE /\ fs' = p.fs
                   /\ uuids' = [uuids EXCEPT ![r] = p.uuids]
                   /\ pending' = [pending EXCEPT ![r] =
                          IF p.raised THEN Wrapped("generate", "move_error")
                          ELSE Resp(200, "Product generation completed successfully",
                                    "", p.urls, analysis[r])]
    /\ pc' = [pc EXCEPT ![r] = "finally_clothing"]
    /\ UNCHANGED <<script, quota, endpoint, output_prefix, clothing_path,
                   model_path, analysis, response, cli>>

\* Lines 184-185 / 257-258: if clothing_path: cleanup_file(clothing_path)
FinallyClothing(r) ==
    /\ pc[r] = "finally_clothing"
    /\ IF clothing_path[r] # NoPath
       THEN /\ fs' = cleanup_file(fs, clothing_path[r])
            /\ Log(r, Ev("cleanup", "clothing", NoUpload, "", clothing_path[r]))
       ELSE UNCHANGED <<fs, trace>>
    /\ pc' = [pc EXCEPT ![r] = IF endpoint[r] = "analyze" THEN "return" ELSE "finally_model"]
    /\ UNCHANGED <<uuids, script, quota, endpoint, output_prefix, clothing_path,
                   model_path, analysis, pending, response, created, cli>>

\* Lines 259-260: if model_path: cleanup_file(model_path)
FinallyModel(r) ==
    /\ pc[r] = "finally_model"
    /\ IF model_path[r] # NoPath
       THEN /\ fs' = cleanup_file(fs, model_path[r])
            /\ Log(r, Ev("cleanup", "model", NoUpload, "", model_path[r]))
       ELSE UNCHANGED <<fs, trace>>
    /\ pc' = [pc EXCEPT ![r] = "return"]
    /\ UNCHANGED <<uuids, script, quota, endpoint, output_prefix, clothing_path,
                   model_path, analysis, pending, response, created, cli>>

\* The handler returns its body or lets its HTTPException out: the caller
\* receives the response.
Return(r) ==
    /\ pc[r] = "return"
    /\ response' = [response EXCEPT ![r] = pending[r]]
    /\ Log(r, Ev("return", "", NoUpload, "", NoPath))
    /\ pc' = [pc EXCEPT ![r] = "done"]
    /\ UNCHANGED <<fs, uuids, script, quota, endpoint, output_prefix,
                   clothing_path, model_path, analysis, pending, created, cli>>

-----------------------------------------------------------------------------
(* The service *)

\* The scripts the service is run against: the call fails; four images in
\* two chunks around a text; one JPEG image; no image.
PNG == Img("image/png")

FourImages ==
    Script(<<Chunk("parts", <<PNG, PNG>>), Chunk("parts", <<Txt>>),
             Chunk("parts", <<PNG, PNG>>)>>, TRUE)

\* A file a run of the command-line pipeline left in the working directory:
\* its sixth image.
Leftover == [p \in {Transient("product", 5, ".png")} |-> [by |-> "cli", data |-> Payload(3, 2)]]

\* The surroundings the service is run in: the generation call fails; it
\* streams four images; it streams four images and the static directory
\* accepts one file only; it streams four images and the working directory
\* holds a file of an earlier run of the command-line pipeline.
Surroundings ==
    { <<Script(<<>>, FALSE), -1, <<>>>>, <<FourImages, -1, <<>>>>, <<FourImages, 1, <<>>>>,
      <<FourImages, -1, Leftover>> }

NoCli == [pc |-> "off"]

InitRequests ==
    /\ pc = [r \in Reqs |-> "idle"]
    /\ endpoint = [r \in Reqs |-> "analyze"]
    /\ output_prefix = [r \in Reqs |-> "product"]
    /\ clothing_path = [r \in Reqs |-> NoPath]
    /\ model_path = [r \in Reqs |-> NoPath]
    /\ analysis = [r \in Reqs |-> NoAnalysis]
    /\ pending = [r \in Reqs |-> NoResp]
    /\ response = [r \in Reqs |-> NoResp]
    /\ created = [r \in Reqs |-> {}]
    /\ trace = [r \in Reqs |-> <<>>]

Init ==
    /\ uuids = [r \in Reqs |-> 0]
    /\ \E s \in Surroundings : script = s[1] /\ quota = s[2] /\ fs = s[3]
    /\ InitRequests
    /\ cli = NoCli

Next ==
    \E r \in Reqs :
          \/ Receive(r)
          \/ SaveClothing(r)
          \/ SaveModel(r)
          \/ Analyze(r)
          \/ Generate(r)
          \/ FinallyClothing(r)
          \/ FinallyModel(r)
          \/ Return(r)

Spec == Init /\ [][Next]_vars

-----------------------------------------------------------------------------
(* The command-line pipeline, banana.main().                                *)

image_extensions == {".jpg", ".jpeg", ".png", ".gif", ".bmp", ".webp"}

\* filename.lower().endswith(ext) for one of the image extensions.
IsImageName(path) == Lower(path.ext) \in image_extensions

ImagesIn(files, folder) == { p \in DOMAIN files : p.dir = folder /\ IsImageName(p) }

\* The order of the names the user's files have.
NameRank(path) ==
    CASE path.pre = "dress" -> 1
      [] path.pre = "hat" -> 2
      [] OTHER -> 3

\* sorted(image_files)
RECURSIVE Sorted(_)
Sorted(paths) ==
    IF paths = {}
    THEN <<>>
    ELSE LET first == CHOOSE p \in paths : \A q \in paths : NameRank(p) <= NameRank(q)
         IN  <<first>> \o Sorted(paths \ {first})

get_all_images_in_folder(files, folder) == Sorted(ImagesIn(files, folder))

\* The first image os.listdir happens to give: any of them, or None.
get_first_image_in_folder(files, folder) ==
    IF ImagesIn(files, folder) = {} THEN {NoPath} ELSE ImagesIn(files, folder)

NoGen == GenState(<<>>, FALSE, "", 0, 0, <<>>, <<>>)

CliState(at, apparel_paths, model, i, gen) ==
    [pc |-> at, apparel_paths |-> apparel_paths, model_path |-> model, i |-> i,
     gen |-> gen]

\* Lines 229-248: the folders are listed; without apparel images main returns.
CliList ==
    /\ cli.pc = "start"
    /\ \E m \in get_first_image_in_folder(fs, "model") :
          LET apparel_paths == get_all_images_in_folder(fs, "apparels")
          IN  cli' = CliState(IF apparel_paths = <<>> THEN "done" ELSE "analyze",
                              apparel_paths, m, 1, NoGen)
    /\ UNCHANGED <<fs, uuids, script, quota, reqVars>>

\* Lines 256-280: one apparel image is analyzed; an exception ends the run.
\* After the last one, main returns when there is no model image.
CliAnalyze ==
    /\ cli.pc = "analyze"
    /\ \E reply \in ServiceReplies :
          LET a == analyze_clothing_item(fs, cli.apparel_paths[cli.i], reply)
          IN  cli' = [cli EXCEPT
                  !.i = @ + 1,
                  !.pc = IF a.raised THEN "done"
                         ELSE IF cli.i < Len(cli.apparel_paths) THEN "analyze"
                         ELSE IF cli.model_path = NoPath \/ cli.model_path \notin DOMAIN fs
                              THEN "done"
                              ELSE "generate"]
    /\ UNCHANGED <<fs, uuids, script, quota, reqVars>>

\* Line 286: generate_fashion_product_images(apparel_paths, model_path, "product");
\* an exception of it ends the run with a traceback.
CliGenerate ==
    /\ cli.pc = "generate"
    /\ LET g == generate_fashion_product_images(fs, AsList(cli.apparel_paths),
                                                 cli.model_path, "product", script, "cli")
       IN  /\ fs' = g.fs
           /\ cli' = [cli EXCEPT !.pc = IF g.raised THEN "crashed" ELSE "generated",
                                 !.gen = [g EXCEPT !.fs = <<>>]]
    /\ UNCHANGED <<uuids, script, quota, reqVars>>

UserData == [by |-> "user", data |-> 0]

\* The folders as the user may have filled them.
UserFolders ==
    LET dress == UserFile("apparels", "dress", ".jpg")
        hat == UserFile("apparels", "hat", ".PNG")
        notes == UserFile("apparels", "notes", ".txt")
        model == UserFile("model", "model", ".png")
    IN  { {dress, hat, notes, model}, {dress, model}, {notes, model}, {dress} }

InitCli ==
    /\ \E files \in UserFolders : fs = [p \in files |-> UserData]
    /\ uuids = [r \in Reqs |-> 0]
    /\ script \in Scripts
    /\ quota = -1
    /\ InitRequests
    /\ cli = CliState("start", <<>>, NoPath, 1, NoGen)

NextCli ==
    \/ CliList
    \/ CliAnalyze
    \/ CliGenerate

SpecCli == InitCli /\ [][NextCli]_vars

-----------------------------------------------------------------------------
(* A caller of analyze_clothing_item: one call on an image, against one    *)
(* reply of the remote service.                                            *)

AskState(at, image_path, reply, out) ==
    [pc |-> at, image_path |-> image_path, reply |-> reply, out |-> out]

NoAnswer == AnaState(FALSE, "", 0, NoAnalysis)

\* analysis = analyze_clothing_item(image_path)
Ask ==
    /\ cli.pc = "ask"
    /\ cli' = [cli EXCEPT !.pc = "answered",
                          !.out = analyze_clothing_item(fs, cli.image_path, cli.reply)]
    /\ UNCHANGED <<fs, uuids, script, quota, reqVars>>

InitAnalysis ==
    /\ \E files \in {{UserFile("apparels", "dress", ".jpg")}, {}} :
          fs = [p \in files |-> UserData]
    /\ uuids = [r \in Reqs |-> 0]
    /\ script = Script(<<>>, TRUE)
    /\ quota = -1
    /\ InitRequests
    /\ \E reply \in Replies :
          cli = AskState("ask", UserFile("apparels", "dress", ".jpg"), reply, NoAnswer)

NextAnalysis == Ask

SpecAnalysis == InitAnalysis /\ [][NextAnalysis]_vars

\* The call has returned a record.
Answered == cli.pc = "answered" /\ ~cli.out.raised

\* The objects of the schema a text holds.
SchemaObjects(text) ==
    { text[i] : i \in { n \in 1..Len(text) :
                          text[n].json = "object" /\ SchemaFields \subseteq text[n].fields } }

-----------------------------------------------------------------------------
(* cleanup_file step by step: the existence check, then the removal, while *)
(* someone else may remove files in between.                               *)

\* The longest run of calls of cleanup_file.
MaxReleases == 3

\* The outcome of lines 131-134: the file system, whether the warning was
\* logged, and whether an exception left cleanup_file.
RemoveOutcome(files, warned, escaped) ==
    [fs |-> files, warned |-> warned, escaped |-> escaped]

\* A removal without the except branch.
RemoveStep_unguarded(files, file_path) ==
    IF file_path \in DOMAIN files
    THEN RemoveOutcome(Remove(files, file_path), FALSE, FALSE)
    ELSE RemoveOutcome(files, FALSE, TRUE)

\* os.remove(file_path) inside the try: it raises when the file is gone, and
\* the except branch logs the warning.
RemoveStep(files, file_path) ==
    IF file_path \in DOMAIN files
    THEN RemoveOutcome(Remove(files, file_path), FALSE, FALSE)
    ELSE RemoveOutcome(files, TRUE, FALSE)

\* The paths the calls are made on: uploads as the service names them.
ReleasePaths ==
    { UploadPath("apparels", get_unique_filename(<<"shirt", ".jpg">>, 0, <<r, 0>>)) : r \in Reqs }
    \cup { UploadPath("model", get_unique_filename(<<"model", ".PNG">>, 0, <<"r1", 1>>)) }

\* The last completed call: its path, and the file system when its last
\* step began and when it ended.
LastRelease(path, before, after) == [path |-> path, before |-> before, after |-> after]

ReleaseState(at, file_path, calls, warned, escaped, last) ==
    [pc |-> at, file_path |-> file_path, calls |-> calls, warned |-> warned,
     escaped |-> escaped, last |-> last]

\* Line 130: if os.path.exists(file_path); without the file the call is over.
ReleaseCheck ==
    /\ cli.pc = "call"
    /\ cli.calls < MaxReleases
    /\ \E file_path \in ReleasePaths :
          cli' = IF file_path \in DOMAIN fs
                 THEN [cli EXCEPT !.pc = "remove", !.file_path = file_path]
                 ELSE [cli EXCEPT !.file_path = file_path, !.calls = @ + 1,
                                  !.last = LastRelease(file_path, fs, fs)]
    /\ UNCHANGED <<fs, uuids, script, quota, reqVars>>

\* Lines 131-134: the removal and the except branch.
ReleaseRemove ==
    /\ cli.pc = "remove"
    /\ LET o == RemoveStep(fs, cli.file_path)
       IN  /\ fs' = o.fs
           /\ cli' = [cli EXCEPT !.pc = "call", !.calls = @ + 1,
                                 !.warned = @ \/ o.warned,
                                 !.escaped = @ \/ o.escaped,
                                 !.last = LastRelease(cli.file_path, fs, o.fs)]
    /\ UNCHANGED <<uuids, script, quota, reqVars>>

\* Someone else removes a file.
RemovedByOther ==
    /\ cli.pc \in {"call", "remove"}
    /\ \E p \in DOMAIN fs : fs' = Remove(fs, p)
    /\ UNCHANGED <<uuids, script, quota, reqVars, cli>>

InitRelease ==
    /\ \E files \in SUBSET ReleasePaths : fs = [p \in files |-> UserData]
    /\ uuids = [r \in Reqs |-> 0]
    /\ script = Script(<<>>, TRUE)
    /\ quota = -1
    /\ InitRequests
    /\ cli = ReleaseState("call", NoPath, 0, FALSE, FALSE, LastRelease(NoPath, <<>>, <<>>))

NextRelease ==
    \/ ReleaseCheck
    \/ ReleaseRemove
    \/ RemovedByOther

SpecRelease == InitRelease /\ [][NextRelease]_vars

-----------------------------------------------------------------------------
(* Reading the history of a request *)

Events(r, ev) == { n \in 1..Len(trace[r]) : trace[r][n].ev = ev }

Has(r, ev) == Events(r, ev) # {}

\* The assets the request stored: the paths save_upload_file returned.
Stored(r) ==
    { trace[r][n].path : n \in { m \in Events(r, "save") : trace[r][m].result = "saved" } }

\* How often cleanup_file was called on a path.
Releases(r, path) ==
    Cardinality({ n \in Events(r, "cleanup") : trace[r][n].path = path })

Rejected(r) == \E n \in Events(r, "save") : trace[r][n].result = "rejected"

\* The handler has left its finally block.
Concluded(r) == pc[r] \in {"return", "done"}

\* A generate request that stored both inputs and whose analysis returned.
ReadyToGenerate(r) ==
    /\ endpoint[r] = "generate"
    /\ Cardinality(Stored(r)) = 2
    /\ Has(r, "analysis_return")

\* The image parts of a script as positions <<chunk, part>>, and the
\* position of the n-th image the service emits.
ImagePositions(stream) ==
    UNION { { <<k, j>> : j \in { i \in 1..Len(stream.chunks[k].parts) :
                                    stream.chunks[k].parts[i].part = "image" } } :
            k \in { c \in 1..Len(stream.chunks) : stream.chunks[c].chunk = "parts" } }

Before(a, b) == a[1] < b[1] \/ (a[1] = b[1] /\ a[2] < b[2])

NthImage(stream, n) ==
    CHOOSE a \in ImagePositions(stream) :
        Cardinality({ b \in ImagePositions(stream) : Before(b, a) }) = n - 1

NumImages(stream) == Cardinality(ImagePositions(stream))

-----------------------------------------------------------------------------
\* C1: in both workflows, on every exit path, every asset the request stored
\* has been released exactly once when the handler leaves its finally block,
\* and none of the stored files exists then; no asset is ever released twice.
C1_ReleasedExactlyOnce ==
    \A r \in Reqs :
        /\ \A p \in Stored(r) : Releases(r, p) <= 1
        /\ Concluded(r) =>
              \A p \in Stored(r) : Releases(r, p) = 1 /\ p \notin DOMAIN fs

\* A generate request whose generation raised has returned its error with
\* both stored assets released.
C1_Witness ==
    \E r \in Reqs :
        /\ pc[r] = "done"
        /\ Has(r, "generation_raise")
        /\ Cardinality(Stored(r)) = 2
        /\ response[r].status = 500

-----------------------------------------------------------------------------
-----------------------------------------------------------------------------
\* C3: a generate request with two valid uploads, against a generation
\* service that streams N images (N within the scan), returns a success
\* body with N references, and both temporary assets are deleted.
C3_GenerateReturnsTheImages ==
    \A r \in Reqs :
        (/\ pc[r] = "done"
         /\ ReadyToGenerate(r)
         /\ script.ok /\ quota = -1
         /\ NumImages(script) <= MaxScan)
        => /\ response[r].status = 200
           /\ Len(response[r].images) = NumImages(script)
           /\ \A p \in Stored(r) : p \notin DOMAIN fs

-----------------------------------------------------------------------------
-----------------------------------------------------------------------------
\* C5: a store succeeds only if the declared media type is in the media-type
\* allow-list and the extension of the file name is in the extension
\* allow-list; when either check fails the store is rejected with the
\* invalid-file-type error, it creates no file, and the request issues no
\* remote call.
C5_StoreNeedsTypeAndExtension ==
    \A r \in Reqs : \A n \in Events(r, "save") :
        LET e == trace[r][n]
            both == /\ e.up.content_type \in allowed_types
                    /\ Lower(Suffix(e.up.filename)) \in allowed_extensions
        IN  /\ e.result = "saved" => both
            /\ ~both =>
                  /\ e.result = "rejected"
                  /\ e.path = NoPath
                  /\ created[r] \subseteq
                        { trace[r][m].path : m \in Events(r, "save") \ {n} }
                  /\ ~Has(r, "analysis_call") /\ ~Has(r, "generation_call")
                  /\ Concluded(r) =>
                        pending[r].status = 400 /\ pending[r].detail = "Invalid file type"

\* A text declared as text/plain and named notes.jpg was rejected, and the
\* caller has the 400 error.
C5_Witness ==
    \E r \in Reqs : \E n \in Events(r, "save") :
        /\ trace[r][n].up = Upload("text/plain", <<"notes", ".jpg">>)
        /\ trace[r][n].result = "rejected"
        /\ pc[r] = "done"
        /\ response[r].status = 400

-----------------------------------------------------------------------------
LastEvent(r) == trace[r][Len(trace[r])]

JustRejected(r) ==
    /\ trace[r] # <<>>
    /\ LastEvent(r).ev = "save"
    /\ LastEvent(r).result = "rejected"

\* C6 as stated: at the moment a request is rejected with the invalid-input
\* error, the request has created no file, whichever input is the invalid
\* one.
C6_RejectedBeforeAnyFile ==
    \A r \in Reqs : JustRejected(r) => created[r] = {}

\* C6 amended: the rejected store itself creates no file.  When the clothing
\* input is the invalid one (either workflow) the request has created no file
\* at the moment of the rejection; when the model input of a generate request
\* is the invalid one, the clothing asset stored before it is the one file
\* the request has created, it exists at that moment, and it has been
\* released when the handler returns the 400 error.
C6_RejectedStoreCreatesNothing ==
    \A r \in Reqs :
        /\ JustRejected(r) =>
              /\ LastEvent(r).path = NoPath
              /\ LastEvent(r).slot = "clothing" => created[r] = {}
              /\ LastEvent(r).slot = "model" =>
                    /\ created[r] = {clothing_path[r]}
                    /\ clothing_path[r] \in DOMAIN fs
        /\ (Rejected(r) /\ Concluded(r)) =>
              /\ created[r] \cap DOMAIN fs = {}
              /\ pending[r].status = 400

\* The model input of a generate request has just been rejected while the
\* stored clothing asset exists.
C6_Witness ==
    \E r \in Reqs :
        /\ JustRejected(r)
        /\ LastEvent(r).slot = "model"
        /\ clothing_path[r] \in DOMAIN fs

-----------------------------------------------------------------------------
\* C7: for a stream with N image parts and any text or content-less chunks
\* among them, the generator writes exactly N files, <prefix>_0 to
\* <prefix>_<N-1>, the n-th image emitted under index n-1; texts and empty
\* chunks take no index and raise nothing.
C7_ImagesTakeTheIndicesInOrder ==
    (cli.pc \in {"generated", "crashed"} /\ cli.gen.calls = 1) =>
        LET g == cli.gen
            N == NumImages(script)
        IN  /\ Len(g.written) = N
            /\ g.file_index = N
            /\ \A n \in 1..N :
                  /\ g.written[n].dir = "cwd"
                  /\ g.written[n].pre = "product"
                  /\ g.written[n].idx = n - 1
                  /\ g.written[n] \in DOMAIN fs
                  /\ fs[g.written[n]] =
                        [by |-> "cli",
                         data |-> Payload(NthImage(script, n)[1], NthImage(script, n)[2])]
            /\ Cardinality({ p \in DOMAIN fs : p.dir = "cwd" }) = N
            /\ g.raised => ~script.ok

\* The generator has returned from a stream of three chunks: two images in
\* the first, a chunk without image, an image in the third.
C7_Witness ==
    /\ cli.pc = "generated"
    /\ Len(script.chunks) = 3
    /\ NumImages(script) = 3
    /\ \E j \in {1, 2} : <<1, j>> \in ImagePositions(script)
    /\ \A j \in {1, 2} : <<2, j>> \notin ImagePositions(script)
    /\ <<3, 2>> \in ImagePositions(script)

-----------------------------------------------------------------------------
\* C8: when relocating a generated file fails (here: the static directory
\* accepts one file, the service streams several images), the request still
\* yields a success body holding the references of the files relocated so
\* far, and is not aborted with an error.
C8_PartialPublishIsReturned ==
    \A r \in Reqs :
        (/\ pc[r] = "done"
         /\ ReadyToGenerate(r)
         /\ script.ok /\ NumImages(script) >= 2
         /\ quota = 1)
        => /\ response[r].status = 200
           /\ { response[r].images[n] : n \in 1..Len(response[r].images) }
                 = { p \in StaticFiles(fs) : p.id[1] = r }

-----------------------------------------------------------------------------
\* C9: the references a generate request returns designate the images
\* generated for that request, in the order of their emission, and are
\* pairwise distinct, within the request and across requests with one
\* output prefix.
C9_ReferencesInEmissionOrder ==
    \A r \in Reqs :
        (/\ pc[r] = "done"
         /\ ReadyToGenerate(r)
         /\ script.ok /\ quota = -1
         /\ NumImages(script) <= MaxScan)
        => LET urls == response[r].images
           IN  /\ Len(urls) = NumImages(script)
               /\ \A n \in 1..Len(urls) :
                     /\ urls[n] \in DOMAIN fs
                     /\ fs[urls[n]] =
                           [by |-> r,
                            data |-> Payload(NthImage(script, n)[1], NthImage(script, n)[2])]
               /\ \A r2 \in Reqs : \A n \in 1..Len(urls) :
                     \A m \in 1..Len(response[r2].images) :
                        (r2 # r \/ m # n) => response[r2].images[m] # urls[n]

-----------------------------------------------------------------------------
-----------------------------------------------------------------------------
-----------------------------------------------------------------------------
\* A store of the request failed with a storage failure.
StorageFailed(r) ==
    \E n \in Events(r, "save") :
        trace[r][n].result \in {"makedirs_error", "open_error", "copy_error"}

\* C12: when a store fails with a storage failure, at whatever point of the
\* writing, no upload file the request created remains once the error
\* surfaces: the assets stored before are released and the file of the
\* failing store is not left behind.
C12_NoUploadLeftAfterStorageFailure ==
    \A r \in Reqs :
        (Concluded(r) /\ StorageFailed(r)) =>
            /\ pending[r].status = 500
            /\ { p \in created[r] : p.dir \in {"apparels", "model"} } \cap DOMAIN fs = {}

-----------------------------------------------------------------------------
\* C13: the error returned for an unexpected exception is a generic signal
\* that does not depend on the message of the exception: two requests to one
\* endpoint that ended with the internal error under one heading received
\* the same response, whatever text their exceptions carried.
C13_InternalErrorIsGeneric ==
    \A r1 \in Reqs : \A r2 \in Reqs :
        (/\ pc[r1] = "done" /\ pc[r2] = "done"
         /\ endpoint[r1] = endpoint[r2]
         /\ response[r1].status = 500 /\ response[r2].status = 500
         /\ response[r1].detail = response[r2].detail)
        => response[r1] = response[r2]

-----------------------------------------------------------------------------
\* C14: every record analyze_clothing_item returns, parsed or fallback, has
\* all eight fields non-empty: no empty text and no empty sequence of tags,
\* whatever the remote response.
C14_EveryFieldNonEmpty ==
    Answered =>
        LET a == cli.out.value
        IN  /\ a.tags # <<>>
            /\ \A n \in 1..Len(a.tags) : a.tags[n] # ""
            /\ \A f \in SchemaFields \ {"tags"} : a[f] # ""

-----------------------------------------------------------------------------
\* The text holds one object of the schema and, around it, nothing but white
\* space, an opening fence (with or without the json tag) and a closing fence.
FencedSchemaObject(text) ==
    /\ text # NoText
    /\ Cardinality({ n \in 1..Len(text) : text[n].json \in {"object", "array", "junk"} }) = 1
    /\ SchemaObjects(text) # {}
    /\ \E n \in 1..Len(text) :
          /\ text[n].json = "object"
          /\ \A m \in 1..(n - 1) : text[m].json \in {"ws", "fence_json", "fence"}
          /\ \A m \in (n + 1)..Len(text) : text[m].json \in {"ws", "fence"}
          /\ (\E m \in 1..(n - 1) : text[m].json \in {"fence_json", "fence"})
                <=> (\E m \in (n + 1)..Len(text) : text[m].json = "fence")

\* C19: for every response whose text is an object of the schema, with or
\* without white space around it, with or without a code block fence around
\* it (the opening fence with or without a language tag), the record
\* returned holds the values of that object and is not the fallback record.
C19_FencedObjectIsParsed ==
    (Answered /\ FencedSchemaObject(cli.reply.text)) =>
        /\ \E v \in SchemaObjects(cli.reply.text) : cli.out.value = FromJson(v)
        /\ cli.out.value.description # "Unable to analyze clothing item"

-----------------------------------------------------------------------------
\* C15: cleanup_file is idempotent.  No call lets an exception out.  A call
\* on a path whose file is absent, at the existence check or, removed by
\* someone else, at the removal, leaves the file system unchanged; a call
\* that finds the file removes that file and nothing else; after a call the
\* file is absent, so that a second call on the path changes nothing more.
C15_ReleaseIsIdempotent ==
    /\ ~cli.escaped
    /\ cli.calls > 0 =>
          LET l == cli.last
          IN  /\ l.path \notin DOMAIN l.after
              /\ l.path \notin DOMAIN l.before => l.after = l.before
              /\ l.path \in DOMAIN l.before =>
                    /\ DOMAIN l.after = DOMAIN l.before \ {l.path}
                    /\ \A q \in DOMAIN l.after : l.after[q] = l.before[q]
              /\ cleanup_file(l.after, l.path) = l.after
              /\ cleanup_file(cleanup_file(l.before, l.path), l.path)
                    = cleanup_file(l.before, l.path)

\* A second call has ended on a path whose file someone else removed between
\* the existence check and the removal: the warning was logged and the file
\* system was left as it was.
C15_Witness ==
    /\ cli.pc = "call"
    /\ cli.calls >= 2
    /\ cli.warned
    /\ cli.last.path \notin DOMAIN cli.last.before
    /\ cli.last.before # <<>>

-----------------------------------------------------------------------------
\* The positions in the history of a request of the events of some kinds.
EventsOf(r, kinds) == { n \in 1..Len(trace[r]) : trace[r][n].ev \in kinds }

\* Every event of the kinds A comes before every event of the kinds B.
AllBefore(r, A, B) == \A a \in EventsOf(r, A) : \A b \in EventsOf(r, B) : a < b

\* The position of the successful store of a slot, as a set.
SavedAt(r, slot) ==
    { n \in Events(r, "save") : trace[r][n].slot = slot /\ trace[r][n].result = "saved" }

AnalysisEvents == {"analysis_call", "analysis_return", "analysis_raise"}

GenerationEvents == {"generation_call", "generation_return", "generation_raise"}

PublishEvents == {"publish", "publish_raise"}

\* C16: a generate request goes through its steps in one order.  No remote
\* call is issued before both inputs are stored, and a failed store is
\* followed by no remote call at all; the analysis has returned before the
\* generation begins, and the two never overlap; publishing begins only
\* after the generator has returned; the cleanup comes after all of these
\* and before the result is returned, which is the last event.
C16_StepsInOrder ==
    \A r \in Reqs :
        endpoint[r] = "generate" =>
            /\ AllBefore(r, {"save"}, AnalysisEvents \cup GenerationEvents)
            /\ \A n \in EventsOf(r, AnalysisEvents \cup GenerationEvents) :
                  /\ \E c \in SavedAt(r, "clothing") : \E m \in SavedAt(r, "model") :
                        c < m /\ m < n
                  /\ \A k \in Events(r, "save") : trace[r][k].result = "saved"
            /\ AllBefore(r, AnalysisEvents, GenerationEvents)
            /\ EventsOf(r, GenerationEvents) # {} => Has(r, "analysis_return")
            /\ AllBefore(r, GenerationEvents, PublishEvents)
            /\ EventsOf(r, PublishEvents) # {} => Has(r, "generation_return")
            /\ AllBefore(r, {"save"} \cup AnalysisEvents \cup GenerationEvents \cup PublishEvents,
                         {"cleanup"})
            /\ AllBefore(r, {"cleanup"}, {"return"})
            /\ \A n \in Events(r, "return") : n = Len(trace[r])
            /\ pc[r] = "done" <=> Has(r, "return")

\* A generate request has stored both inputs, had its analysis, attempted
\* the generation, released both assets and returned.
C16_Witness ==
    \E r \in Reqs :
        /\ endpoint[r] = "generate"
        /\ pc[r] = "done"
        /\ Cardinality(Stored(r)) = 2
        /\ Has(r, "analysis_call") /\ Has(r, "analysis_return")
        /\ EventsOf(r, GenerationEvents) # {}
        /\ Cardinality(Events(r, "cleanup")) = 2

-----------------------------------------------------------------------------
\* The request the command-line pipeline issues carries the prompt, the
\* apparel images in the order of the list, and the model image last.
CliRequestKeepsTheOrder ==
    (cli.pc \in {"generated", "crashed"} /\ cli.gen.calls = 1) =>
        /\ Len(cli.gen.contents) = Len(cli.apparel_paths) + 2
        /\ cli.gen.contents[1] = Prompt
        /\ \A n \in 1..Len(cli.apparel_paths) :
              cli.gen.contents[n + 1] = ImagePart(cli.apparel_paths[n])
        /\ cli.gen.contents[Len(cli.gen.contents)] = ImagePart(cli.model_path)

\* C17: the generation request of a generate call carries the instruction,
\* then the apparel images in the given order, then the model image; in the
\* generate workflow the apparel sequence is the one stored clothing asset,
\* so the request of a generate request that got as far as the generation
\* carries the instruction, its clothing image and its model image.
C17_RequestCarriesClothingThenModel ==
    \A r \in Reqs :
        (pc[r] = "done" /\ ReadyToGenerate(r)) =>
            \E n \in Events(r, "generation_call") :
                trace[r][n].contents =
                    <<Prompt, ImagePart(clothing_path[r]), ImagePart(model_path[r])>>

-----------------------------------------------------------------------------
\* C18: every file the generator writes for a generate request is moved to
\* the static directory: when the request has returned its success body,
\* each image the service streamed is a published file of the request and no
\* file the generator wrote for it is left in the working directory.
C18_EveryImageIsMoved ==
    \A r \in Reqs :
        (/\ pc[r] = "done"
         /\ ReadyToGenerate(r)
         /\ script.ok /\ quota = -1)
        => /\ response[r].status = 200
           /\ Cardinality({ p \in StaticFiles(fs) : fs[p].by = r }) = NumImages(script)
           /\ { p \in created[r] : p.dir = "cwd" } \cap DOMAIN fs = {}

-----------------------------------------------------------------------------
====
